---- MODULE Spec2Model ----
(***************************************************************************)
(* A model of the Raytracer-Assignment-2022 path tracer:                   *)
(*   - the ray/sphere intersection routines (sphere.rs, hittable/sphere.rs) *)
(*   - the materials (material.rs, material/mod.rs)                         *)
(*   - the recursive integrator ray_color and the render loop (main.rs).    *)
(*                                                                          *)
(* f64 values are modelled as fixed-point numbers with Scale units per 1.0  *)
(* (results of *, / and sqrt are rounded toward zero), extended with        *)
(* the IEEE special values NaN, +Inf and -Inf, which division by zero and   *)
(* the square root of a negative number produce exactly as in IEEE 754.     *)
(***************************************************************************)
EXTENDS Integers, Sequences, FiniteSets, TLC

VARIABLES
    hit,        \* the last call on a Hittable (hit or bounding_box): its receiver,
                \* arguments and result
    mat,        \* the last material call: constructor or scatter, with its result
    rc,         \* one ray_color evaluation: the recursion's position and frames
    phase,      \* main's position: "setup", "render" (in the loops) or "finished"
    rng,        \* the generator rand::thread_rng() hands out
    px, py,     \* the render loop's position: for y in 0..height, for x in 0..width
    img,        \* the image buffer, indexed by <<column, row>>
    writes,     \* ghost: how many times each image position has been written
    progress,   \* the progress bar's position
    runs        \* two runs of the render loop over the same scene (run 1, run 2)

\* the variables of main's render loop
renderVars == <<phase, rng, px, py, img, writes, progress>>

vars == <<hit, mat, rc, phase, rng, px, py, img, writes, progress, runs>>

----------------------------------------------------------------------------
(* Bounds of the model *)

\* fixed-point units per 1.0
Scale == 100
\* the largest centre coordinate of a sphere, in whole units
MaxC == 5
\* the image size (400 x 225 in main) and the samples per pixel (100 in main)
Width == 3
Height == 2
SamplesPerPixel == 2
\* the number of states of the generator, and of values a draw takes
RngStates == 16

----------------------------------------------------------------------------
(* f64 arithmetic *)

F(n) == [k |-> "fin", v |-> n]
NaN == [k |-> "nan", v |-> 0]
PInf == [k |-> "inf", v |-> 1]
NInf == [k |-> "inf", v |-> -1]

\* the grid value of the decimal literal num/den
FConst(num, den) == F((num * Scale) \div den)
FInt(n) == F(n * Scale)
Zero == F(0)
One == F(Scale)

IsNaN(x) == x.k = "nan"
IsFin(x) == x.k = "fin"
IsInf(x) == x.k = "inf"

Sgn(n) == IF n > 0 THEN 1 ELSE IF n < 0 THEN -1 ELSE 0
Abs(n) == IF n < 0 THEN -n ELSE n
Inf(s) == [k |-> "inf", v |-> s]

\* integer division rounding toward zero, as symmetric about 0 as IEEE rounding
TDiv(a, b) == Sgn(a) * Sgn(b) * (Abs(a) \div Abs(b))

\* the position of a non-NaN value on the extended real line, for comparisons
Rank(x) == IF IsInf(x) THEN x.v ELSE 0

FNeg(x) ==
    IF IsNaN(x) THEN NaN
    ELSE IF IsInf(x) THEN Inf(-x.v)
    ELSE F(-x.v)

FAdd(x, y) ==
    IF IsNaN(x) \/ IsNaN(y) THEN NaN
    ELSE IF IsInf(x) /\ IsInf(y) THEN (IF x.v = y.v THEN x ELSE NaN)
    ELSE IF IsInf(x) THEN x
    ELSE IF IsInf(y) THEN y
    ELSE F(x.v + y.v)

FSub(x, y) == FAdd(x, FNeg(y))

FMul(x, y) ==
    IF IsNaN(x) \/ IsNaN(y) THEN NaN
    ELSE IF IsInf(x) \/ IsInf(y)
         THEN (IF Sgn(x.v) * Sgn(y.v) = 0 THEN NaN ELSE Inf(Sgn(x.v) * Sgn(y.v)))
    ELSE F(TDiv(x.v * y.v, Scale))

\* x / y; a finite non-zero value over zero is an infinity, 0/0 is NaN
FDiv(x, y) ==
    IF IsNaN(x) \/ IsNaN(y) THEN NaN
    ELSE IF IsInf(x) /\ IsInf(y) THEN NaN
    ELSE IF IsInf(x) THEN Inf(IF y.v < 0 THEN -x.v ELSE x.v)
    ELSE IF IsInf(y) THEN Zero
    ELSE IF y.v = 0 THEN (IF x.v = 0 THEN NaN ELSE Inf(Sgn(x.v)))
    ELSE F(TDiv(x.v * Scale, y.v))

\* the integer square root, by bisection: lo * lo <= n < hi * hi throughout
RECURSIVE ISqrtIter(_, _, _)
ISqrtIter(n, lo, hi) ==
    IF hi - lo <= 1 THEN lo
    ELSE LET mid == (lo + hi) \div 2
         IN  IF mid * mid <= n THEN ISqrtIter(n, mid, hi) ELSE ISqrtIter(n, lo, mid)

ISqrt(n) == ISqrtIter(n, 0, 46340)

FSqrt(x) ==
    IF IsNaN(x) THEN NaN
    ELSE IF IsInf(x) THEN (IF x.v > 0 THEN x ELSE NaN)
    ELSE IF x.v < 0 THEN NaN
    ELSE F(ISqrt(x.v * Scale))

\* x < y; every comparison with NaN is false
FLt(x, y) ==
    IF IsNaN(x) \/ IsNaN(y) THEN FALSE
    ELSE IF IsInf(x) \/ IsInf(y) THEN Rank(x) < Rank(y)
    ELSE x.v < y.v

FGt(x, y) == FLt(y, x)
FLe(x, y) == ~IsNaN(x) /\ ~IsNaN(y) /\ ~FLt(y, x)

\* f64::min: the smaller argument, the other argument when one is NaN
FMin(x, y) ==
    IF IsNaN(x) THEN y
    ELSE IF IsNaN(y) THEN x
    ELSE IF FLt(y, x) THEN y ELSE x

\* x.powi(n) by repeated multiplication
RECURSIVE FPowi(_, _)
FPowi(x, n) == IF n = 0 THEN One ELSE FMul(x, FPowi(x, n - 1))

----------------------------------------------------------------------------
(* Vec3 / Point3 / Color and Ray *)

VInt(p) == <<FInt(p[1]), FInt(p[2]), FInt(p[3])>>
VAdd(a, b) == <<FAdd(a[1], b[1]), FAdd(a[2], b[2]), FAdd(a[3], b[3])>>
VSub(a, b) == <<FSub(a[1], b[1]), FSub(a[2], b[2]), FSub(a[3], b[3])>>
VNeg(a) == <<FNeg(a[1]), FNeg(a[2]), FNeg(a[3])>>
VMulF(a, f) == <<FMul(a[1], f), FMul(a[2], f), FMul(a[3], f)>>
VDivF(a, f) == <<FDiv(a[1], f), FDiv(a[2], f), FDiv(a[3], f)>>
VMul(a, b) == <<FMul(a[1], b[1]), FMul(a[2], b[2]), FMul(a[3], b[3])>>
Dot(a, b) == FAdd(FAdd(FMul(a[1], b[1]), FMul(a[2], b[2])), FMul(a[3], b[3]))
LengthSqr(a) == Dot(a, a)

Ray(orig, dir, tm) == [orig |-> orig, dir |-> dir, tm |-> tm]
RayAt(r, t) == VAdd(r.orig, VMulF(r.dir, t))

----------------------------------------------------------------------------
(* HitRecord *)

None == [some |-> FALSE]
Some(val) == [some |-> TRUE, val |-> val]

\* HitRecord::new(p, normal, t, .., front_face, ..)
HitRecordNew(p, normal, t, front_face) ==
    [p |-> p, normal |-> normal, t |-> t, front_face |-> front_face]

\* HitRecord::set_face_normal(r, outward_normal)
SetFaceNormal(rec, r, outward_normal) ==
    LET ff == FLt(Dot(r.dir, outward_normal), Zero)
    IN  [rec EXCEPT !.front_face = ff,
                    !.normal = IF ff THEN outward_normal ELSE VNeg(outward_normal)]

----------------------------------------------------------------------------
(* Sphere and MovingSphere *)

Sphere(center, radius) == [center |-> center, radius |-> radius]

\* the two quadratic roots of Sphere::hit, as the code computes them
SmallRoot(half_b, sqrtd, a) == FDiv(FSub(FNeg(half_b), sqrtd), a)
LargeRoot(half_b, sqrtd, a) == FDiv(FAdd(FNeg(half_b), sqrtd), a)

\* root < t_min || t_max < root
OutOfRange(root, t_min, t_max) == FLt(root, t_min) \/ FLt(t_max, root)

\* the quadratic's coefficients and discriminant
Quad(center, radius, r) ==
    LET oc == VSub(r.orig, center)
        a == LengthSqr(r.dir)
        half_b == Dot(oc, r.dir)
        c == FSub(LengthSqr(oc), FMul(radius, radius))
    IN  [a |-> a, half_b |-> half_b, c |-> c,
         discriminant |-> FSub(FPowi(half_b, 2), FMul(a, c))]

\* a root selection that tries the larger root first
PickRootLargeFirst(q, t_min, t_max) ==
    IF FLt(q.discriminant, Zero) THEN None
    ELSE LET sqrtd == FSqrt(q.discriminant)
             root == LargeRoot(q.half_b, sqrtd, q.a)
         IN  IF OutOfRange(root, t_min, t_max)
             THEN LET root2 == SmallRoot(q.half_b, sqrtd, q.a)
                  IN  IF OutOfRange(root2, t_min, t_max) THEN None ELSE Some(root2)
             ELSE Some(root)

\* the root the code settles on: None, or Some(root)
PickRoot(q, t_min, t_max) ==
    IF FLt(q.discriminant, Zero) THEN None
    ELSE LET sqrtd == FSqrt(q.discriminant)
             root == SmallRoot(q.half_b, sqrtd, q.a)
         IN  IF OutOfRange(root, t_min, t_max)
             THEN LET root2 == LargeRoot(q.half_b, sqrtd, q.a)
                  IN  IF OutOfRange(root2, t_min, t_max) THEN None ELSE Some(root2)
             ELSE Some(root)

\* src/raytracer/src/sphere.rs: Sphere::hit
\* (the inner `let root` shadows the outer one only inside the if-block, so the
\* record is built from the outer, smaller root even when the larger root was
\* the one found in range)
SphereHitOld(s, r, t_min, t_max) ==
    LET q == Quad(s.center, s.radius, r)
    IN  IF FLt(q.discriminant, Zero) THEN None
        ELSE LET sqrtd == FSqrt(q.discriminant)
                 root == SmallRoot(q.half_b, sqrtd, q.a)
                 inner == LargeRoot(q.half_b, sqrtd, q.a)
             IN  IF OutOfRange(root, t_min, t_max) /\ OutOfRange(inner, t_min, t_max)
                 THEN None
                 ELSE LET rec == HitRecordNew(RayAt(r, root),
                                     VDivF(VSub(RayAt(r, root), s.center), s.radius),
                                     root, FALSE)
                          outward_normal == VDivF(VSub(rec.p, s.center), s.radius)
                      IN  Some(SetFaceNormal(rec, r, outward_normal))

\* the body shared by Sphere::hit and MovingSphere::hit of hittable/sphere.rs
HitAt(center, radius, r, t_min, t_max) ==
    LET picked == PickRoot(Quad(center, radius, r), t_min, t_max)
    IN  IF ~picked.some THEN None
        ELSE LET root == picked.val
                 outward_normal == VDivF(VSub(RayAt(r, root), center), radius)
                 rec == HitRecordNew(RayAt(r, root), outward_normal, root, FALSE)
             IN  Some(SetFaceNormal(rec, r, outward_normal))

\* src/raytracer/src/hittable/sphere.rs: Sphere::hit
SphereHit(s, r, t_min, t_max) == HitAt(s.center, s.radius, r, t_min, t_max)

MovingSphere(center0, center1, time0, time1, radius) ==
    [center0 |-> center0, center1 |-> center1, time0 |-> time0, time1 |-> time1,
     radius |-> radius]

\* MovingSphere::center(time)
MovingCenter(s, time) ==
    VAdd(s.center0,
         VMulF(VSub(s.center1, s.center0),
               FDiv(FSub(time, s.time0), FSub(s.time1, s.time0))))

\* src/raytracer/src/hittable/sphere.rs: MovingSphere::hit
MovingSphereHit(s, r, t_min, t_max) ==
    HitAt(MovingCenter(s, r.tm), s.radius, r, t_min, t_max)

----------------------------------------------------------------------------
(* The intersection calls: inputs and actions *)

\* the largest finite f64 (f64::MAX), the t_max ray_color passes to world.hit
F64_MAX == F(1000000 * Scale)

HitOrigins == {<<0, 0, 0>>, <<0, -1, 0>>}
HitDirs == {<<0, 0, 0>>, <<0, 1, 0>>, <<0, 2, 0>>, <<0, -1, 0>>, <<1, 1, 0>>, <<0, 1, 1>>}
Centers == {<<x, y, 0>> : x \in {0, 1}, y \in 0..MaxC}
Radii == {-1, 0, 1, 2}
\* the smallest positive grid value, standing for the 0.001 of ray_color
Epsilon == F(1)
TMins == {Epsilon, FInt(1), FInt(4)}
TMaxs == {FInt(4), FInt(6), F64_MAX, PInf}
Times == {0, 1}

Rays == {Ray(VInt(o), VInt(d), FInt(tm)) : o \in HitOrigins, d \in HitDirs, tm \in {0}}
TimedRays == {Ray(VInt(o), VInt(d), FInt(tm)) : o \in HitOrigins, d \in HitDirs, tm \in Times}
Spheres == {Sphere(VInt(c), FInt(rad)) : c \in Centers, rad \in Radii}
MovingSpheres ==
    {MovingSphere(VInt(c), VAdd(VInt(c), VInt(<<0, 1, 0>>)), FInt(0), FInt(1), FInt(rad)) :
        c \in Centers, rad \in Radii}

NoCall == [op |-> "none"]

HitCall(op, center, radius, r, t_min, t_max, ret) ==
    [op |-> op, center |-> center, radius |-> radius, r |-> r,
     t_min |-> t_min, t_max |-> t_max, ret |-> ret]

\* a call of Sphere::hit of src/raytracer/src/sphere.rs
CallSphereHitOld ==
    /\ hit = NoCall
    /\ \E s \in Spheres, r \in Rays, t_min \in TMins, t_max \in TMaxs :
          hit' = HitCall("sphere_old", s.center, s.radius, r, t_min, t_max,
                         SphereHitOld(s, r, t_min, t_max))
    /\ UNCHANGED <<mat, rc, renderVars, runs>>

\* a call of Sphere::hit of src/raytracer/src/hittable/sphere.rs
CallSphereHit ==
    /\ hit = NoCall
    /\ \E s \in Spheres, r \in Rays, t_min \in TMins, t_max \in TMaxs :
          hit' = HitCall("sphere", s.center, s.radius, r, t_min, t_max,
                         SphereHit(s, r, t_min, t_max))
    /\ UNCHANGED <<mat, rc, renderVars, runs>>

\* a call of MovingSphere::hit
CallMovingSphereHit ==
    /\ hit = NoCall
    /\ \E s \in MovingSpheres, r \in TimedRays, t_min \in TMins, t_max \in TMaxs :
          hit' = HitCall("moving_sphere", MovingCenter(s, r.tm), s.radius, r, t_min, t_max,
                         MovingSphereHit(s, r, t_min, t_max))
    /\ UNCHANGED <<mat, rc, renderVars, runs>>

----------------------------------------------------------------------------
(* Bounding boxes *)

\* f64::max: the larger argument, the other argument when one is NaN
FMax(x, y) ==
    IF IsNaN(x) THEN y
    ELSE IF IsNaN(y) THEN x
    ELSE IF FLt(x, y) THEN y ELSE x

\* AABB::new(min, max): the two corners as given
AABBNew(min, max) == [min |-> min, max |-> max]

\* AABB::surrounding_box(a, b): component-wise min of the minimums and max of
\* the maximums
SurroundingBox(a, b) ==
    AABBNew([i \in 1..3 |-> FMin(a.min[i], b.min[i])],
            [i \in 1..3 |-> FMax(a.max[i], b.max[i])])

\* Vec3::new(radius, radius, radius)
RadiusVec(radius) == <<radius, radius, radius>>

\* the box of radius `radius` about `center`, as both bounding_box build it
BoxAbout(center, radius) ==
    AABBNew(VSub(center, RadiusVec(radius)), VAdd(center, RadiusVec(radius)))

\* Sphere::bounding_box(_time0, _time1)
SphereBoundingBox(s, time0, time1) == Some(BoxAbout(s.center, s.radius))

\* MovingSphere::bounding_box(time0, time1)
MovingSphereBoundingBox(s, time0, time1) ==
    LET box0 == BoxAbout(MovingCenter(s, time0), s.radius)
        box1 == BoxAbout(MovingCenter(s, time1), s.radius)
    IN  Some(SurroundingBox(box0, box1))

\* the displacements center1 - center0 tried, and the moving spheres built from
\* them; a sphere whose time1 equals its time0 is one the constructor accepts
Motions == {<<0, 1, 0>>, <<3, 0, 0>>}
BoxMovingSpheres ==
    {MovingSphere(VInt(c), VAdd(VInt(c), VInt(d)), FInt(0), FInt(t1), FInt(rad)) :
        c \in Centers, d \in Motions, t1 \in Times, rad \in Radii}

BoxCall(op, s, time0, time1, ret) ==
    [op |-> op, s |-> s, time0 |-> time0, time1 |-> time1, ret |-> ret]

\* a call of Sphere::bounding_box
CallSphereBoundingBox ==
    /\ hit = NoCall
    /\ \E s \in Spheres, time0 \in Times, time1 \in Times :
          hit' = BoxCall("sphere_box", s, FInt(time0), FInt(time1),
                         SphereBoundingBox(s, FInt(time0), FInt(time1)))
    /\ UNCHANGED <<mat, rc, renderVars, runs>>

\* a call of MovingSphere::bounding_box
CallMovingSphereBoundingBox ==
    /\ hit = NoCall
    /\ \E s \in BoxMovingSpheres, time0 \in Times, time1 \in Times :
          hit' = BoxCall("moving_sphere_box", s, FInt(time0), FInt(time1),
                         MovingSphereBoundingBox(s, FInt(time0), FInt(time1)))
    /\ UNCHANGED <<mat, rc, renderVars, runs>>

----------------------------------------------------------------------------
(* Vector utilities used by the materials *)

VLength(a) == FSqrt(LengthSqr(a))
\* Vec3::to_unit
ToUnit(a) == VDivF(a, VLength(a))
\* reflect(v, n) = v - 2 * dot(v, n) * n
Reflect(v, n) == VSub(v, VMulF(n, FMul(FInt(2), Dot(v, n))))
\* refract(uv, n, etai_over_etat), Snell's law
Refract(uv, n, etai_over_etat) ==
    LET cos_theta == FMin(Dot(VNeg(uv), n), One)
        r_out_perp == VMulF(VAdd(uv, VMulF(n, cos_theta)), etai_over_etat)
        rest == FSub(One, LengthSqr(r_out_perp))
        r_out_parallel == VMulF(n, FNeg(FSqrt(IF FLt(rest, Zero) THEN FNeg(rest) ELSE rest)))
    IN  VAdd(r_out_perp, r_out_parallel)

White == <<One, One, One>>
Black == <<Zero, Zero, Zero>>

----------------------------------------------------------------------------
(* Materials *)

\* Metal::new(a, f), the same in material.rs and material/mod.rs
MetalNew(a, f) ==
    [kind |-> "Metal", albedo |-> a, fuzz |-> IF FLt(f, One) THEN f ELSE One]

\* Metal::scatter(r_in, rec), with the draw of random_in_unit_sphere() as `rnd`
MetalScatter(m, r_in, rec, rnd) ==
    LET reflected == Reflect(ToUnit(r_in.dir), rec.normal)
        scattered == Ray(rec.p, VAdd(reflected, VMulF(rnd, m.fuzz)), r_in.tm)
    IN  IF FGt(Dot(scattered.dir, rec.normal), Zero)
        THEN Some([attenuation |-> m.albedo, scattered |-> scattered, pdf |-> Zero])
        ELSE None

DielectricNew(index_of_refraction) == [kind |-> "Dielectric", ir |-> index_of_refraction]

\* Dielectric::reflectance(cos, ref_idx), Schlick's approximation
Reflectance(cos, ref_idx) ==
    LET r0 == FDiv(FSub(One, ref_idx), FAdd(One, ref_idx))
        r0sq == FMul(r0, r0)
    IN  FAdd(r0sq, FMul(FSub(One, r0sq), FPowi(FSub(One, cos), 5)))

\* a scatter with the two refraction ratios exchanged: ir on the front face
DielectricScatterSwapped(m, r_in, rec, random_double) ==
    LET refraction_ratio == IF rec.front_face THEN m.ir ELSE FDiv(One, m.ir)
        unit_direction == ToUnit(r_in.dir)
        cos_theta == FMin(Dot(VNeg(unit_direction), rec.normal), One)
        sin_theta == FSqrt(FSub(One, FPowi(cos_theta, 2)))
        cannot_refract == FGt(FMul(refraction_ratio, sin_theta), One)
        direction ==
            IF cannot_refract \/ FGt(Reflectance(cos_theta, refraction_ratio), random_double)
            THEN Reflect(unit_direction, rec.normal)
            ELSE Refract(unit_direction, rec.normal, refraction_ratio)
    IN  Some([attenuation |-> White, scattered |-> Ray(rec.p, direction, r_in.tm),
              pdf |-> Zero])

\* Dielectric::scatter(r_in, rec), with the draw rng.gen_range(0.0..1.0) as
\* `random_double`
DielectricScatter(m, r_in, rec, random_double) ==
    LET refraction_ratio == IF rec.front_face THEN FDiv(One, m.ir) ELSE m.ir
        unit_direction == ToUnit(r_in.dir)
        cos_theta == FMin(Dot(VNeg(unit_direction), rec.normal), One)
        sin_theta == FSqrt(FSub(One, FPowi(cos_theta, 2)))
        cannot_refract == FGt(FMul(refraction_ratio, sin_theta), One)
        direction ==
            IF cannot_refract \/ FGt(Reflectance(cos_theta, refraction_ratio), random_double)
            THEN Reflect(unit_direction, rec.normal)
            ELSE Refract(unit_direction, rec.normal, refraction_ratio)
    IN  Some([attenuation |-> White, scattered |-> Ray(rec.p, direction, r_in.tm),
              pdf |-> Zero])

----------------------------------------------------------------------------
(* The material calls: inputs and actions *)

\* the number of values a uniform draw from [0, 1) takes in the model
RndSteps == 10

\* the uniform draws from [0, 1)
UnitDraws == {F(k * (Scale \div RndSteps)) : k \in 0..(RndSteps - 1)}

\* the fuzz arguments tried
Fuzzes == {FInt(-2), FConst(-1, 2), Zero, FConst(1, 2), One, FInt(3), NaN, PInf, NInf}

\* the draws of random_in_unit_sphere(): points of length less than 1
SphereCoords == {FConst(-9, 10), FConst(-1, 2), Zero, FConst(1, 2), FConst(9, 10)}
UnitSpherePts ==
    {v \in {<<x, y, z>> : x \in SphereCoords, y \in SphereCoords, z \in {Zero, FConst(1, 2)}} :
        FLt(LengthSqr(v), One)}

MetalAlbedo == <<FConst(8, 10), FConst(6, 10), FConst(2, 10)>>

\* an incoming ray that reaches the surface point (0,0,0), whose normal is
\* (0,1,0) and faces the ray
InDirs == {<<0, -1, 0>>, <<1, -1, 0>>, <<2, -1, 0>>, <<3, -1, 0>>, <<1, -2, 0>>, <<1, 0, 0>>}
SurfaceRec(front_face) ==
    [p |-> VInt(<<0, 0, 0>>), normal |-> VInt(<<0, 1, 0>>), t |-> One,
     front_face |-> front_face]

Irs == {FConst(3, 2), One, FConst(12, 5)}

\* a call of Metal::new
CallMetalNew ==
    /\ mat = NoCall
    /\ \E f \in Fuzzes :
          mat' = [op |-> "metal_new", f |-> f, ret |-> MetalNew(MetalAlbedo, f)]
    /\ UNCHANGED <<hit, rc, renderVars, runs>>

\* a call of Metal::scatter on a constructed Metal
CallMetalScatter ==
    /\ mat = NoCall
    /\ \E f \in Fuzzes, d \in {<<0, -1, 0>>, <<1, -1, 0>>}, rnd \in UnitSpherePts :
          LET m == MetalNew(MetalAlbedo, f)
              r_in == Ray(VSub(Black, VInt(d)), VInt(d), Zero)
          IN  mat' = [op |-> "metal_scatter", m |-> m, r_in |-> r_in, rnd |-> rnd,
                      perturbation |-> VMulF(rnd, m.fuzz),
                      ret |-> MetalScatter(m, r_in, SurfaceRec(TRUE), rnd)]
    /\ UNCHANGED <<hit, rc, renderVars, runs>>

\* a call of Dielectric::scatter
CallDielectricScatter ==
    /\ mat = NoCall
    /\ \E ir \in Irs, d \in InDirs, ff \in BOOLEAN, random_double \in UnitDraws :
          LET m == DielectricNew(ir)
              r_in == Ray(VSub(Black, VInt(d)), VInt(d), Zero)
          IN  mat' = [op |-> "dielectric_scatter", m |-> m, r_in |-> r_in,
                      rec |-> SurfaceRec(ff), random_double |-> random_double,
                      ret |-> DielectricScatter(m, r_in, SurfaceRec(ff), random_double)]
    /\ UNCHANGED <<hit, rc, renderVars, runs>>

----------------------------------------------------------------------------
(* The integrator: ray_color(r, world, depth) of main.rs, one step at a time *)

\* the largest depth ray_color is started with
MaxDepth == 3

LambertianNew(a) == [kind |-> "Lambertian", albedo |-> a]
DiffuseLightNew(c) == [kind |-> "DiffuseLight", emit |-> c]

\* Lambertian::scatter: always scatters, with the albedo as attenuation
LambertianScatter(m) == Some([attenuation |-> m.albedo])

\* DiffuseLight::scatter: never scatters
DiffuseLightScatter(m) == None

\* Material::emitted: black unless overridden; DiffuseLight emits on its front face
Emitted(m, rec) ==
    IF m.kind = "DiffuseLight"
    THEN (IF rec.front_face THEN m.emit ELSE Black)
    ELSE Black

\* the materials of the scene
SceneMaterials ==
    {LambertianNew(<<FConst(7, 10), FConst(3, 10), FConst(3, 10)>>),
     MetalNew(MetalAlbedo, One),
     DielectricNew(FConst(3, 2)),
     DiffuseLightNew(<<FInt(4), FInt(4), FInt(4)>>)}

\* the draws a scatter call may make at a hit
ScatterDraws == {<<Zero, Zero, Zero>>, <<Zero, FConst(-9, 10), Zero>>,
                 <<FConst(1, 2), FConst(1, 2), FConst(1, 2)>>}

\* what rec.mat_ptr.scatter(r, &rec) can return at a hit of material m
ScatterResults(m, r_in, rec) ==
    IF m.kind = "Lambertian" THEN {LambertianScatter(m)}
    ELSE IF m.kind = "Metal" THEN {MetalScatter(m, r_in, rec, rnd) : rnd \in ScatterDraws}
    ELSE IF m.kind = "Dielectric"
         THEN {DielectricScatter(m, r_in, rec, d) : d \in {Zero, FConst(1, 2)}}
    ELSE {DiffuseLightScatter(m)}

\* the background: white blended with sky blue by the ray's unit direction
Background(r) ==
    LET unit_direction == ToUnit(r.dir)
        t == FMul(FConst(1, 2), FAdd(unit_direction[2], One))
    IN  VAdd(VMulF(White, FSub(One, t)),
             VMulF(<<FConst(1, 2), FConst(7, 10), One>>, t))

\* the directions of the rays traced: camera rays and scattered rays, which are
\* never of zero length
TraceDirs == {<<0, 1, 0>>, <<0, -1, 0>>, <<1, 1, 0>>, <<1, -1, 0>>, <<1, 0, 0>>}

TraceRay(d) == Ray(VSub(Black, VInt(d)), VInt(d), Zero)

\* Background and ScatterResults tabulated over the rays and hits of the scene
SceneBackground == [d \in TraceDirs |-> Background(TraceRay(d))]
SceneScatter ==
    [m \in SceneMaterials |->
        [d \in TraceDirs |->
            [ff \in BOOLEAN |-> ScatterResults(m, TraceRay(d), SurfaceRec(ff))]]]

\* the call ray_color(r, world, d) is entered
RcStart ==
    /\ rc = NoCall
    /\ \E d \in (-1)..MaxDepth :
          rc' = [op |-> "ray_color", pc |-> "entry", d0 |-> d, depth |-> d,
                 frames |-> <<>>, tests |-> 0, steps |-> 1, ret |-> Black,
                 trail |-> <<>>, ending |-> "none", bg |-> Black,
                 emissive |-> FALSE,
                 top |-> [hit |-> FALSE, emitted |-> Black, scattered |-> FALSE,
                          attenuation |-> Black, incoming |-> Black]]
    /\ UNCHANGED <<hit, mat, renderVars, runs>>

\* the depth cutoff taken one call too late: depth < 0
RcEntryLate ==
    /\ rc.op = "ray_color" /\ rc.pc = "entry"
    /\ rc' = IF rc.depth < 0
             THEN [rc EXCEPT !.pc = "return", !.ret = Black, !.steps = @ + 1,
                             !.ending = "cutoff"]
             ELSE [rc EXCEPT !.pc = "hit", !.steps = @ + 1]
    /\ UNCHANGED <<hit, mat, renderVars, runs>>

\* if depth <= 0 { return Color::new(0., 0., 0.); }
RcEntry ==
    /\ rc.op = "ray_color" /\ rc.pc = "entry"
    /\ rc' = IF rc.depth <= 0
             THEN [rc EXCEPT !.pc = "return", !.ret = Black, !.steps = @ + 1,
                             !.ending = "cutoff"]
             ELSE [rc EXCEPT !.pc = "hit", !.steps = @ + 1]
    /\ UNCHANGED <<hit, mat, renderVars, runs>>

\* world.hit(r, 0.001, f64::MAX) and what follows it in the same activation:
\* the background on a miss, black when the material absorbs, the recursive
\* call with depth - 1 when it scatters
RcIntersect ==
    /\ rc.op = "ray_color" /\ rc.pc = "hit"
    /\ \E d \in TraceDirs, found \in BOOLEAN, m \in SceneMaterials, ff \in BOOLEAN :
          LET rec == SurfaceRec(ff)
              isTop == rc.frames = <<>>
          IN  IF ~found
              THEN rc' = [rc EXCEPT !.pc = "return", !.tests = @ + 1, !.steps = @ + 1,
                                    !.ret = SceneBackground[d], !.bg = SceneBackground[d],
                                    !.ending = "miss"]
              ELSE \E res \in SceneScatter[m][d][ff] :
                      IF res.some
                      THEN rc' = [rc EXCEPT
                                    !.pc = "entry", !.tests = @ + 1, !.steps = @ + 1,
                                    !.frames = Append(@, res.val.attenuation),
                                    !.trail = Append(@, res.val.attenuation),
                                    !.depth = @ - 1,
                                    !.emissive = @ \/ m.kind = "DiffuseLight",
                                    !.top = IF isTop
                                            THEN [hit |-> TRUE, emitted |-> Emitted(m, rec),
                                                  scattered |-> TRUE,
                                                  attenuation |-> res.val.attenuation,
                                                  incoming |-> Black]
                                            ELSE @]
                      ELSE rc' = [rc EXCEPT
                                    !.pc = "return", !.tests = @ + 1, !.steps = @ + 1,
                                    !.ret = Black, !.ending = "absorbed",
                                    !.emissive = @ \/ m.kind = "DiffuseLight",
                                    !.top = IF isTop
                                            THEN [hit |-> TRUE, emitted |-> Emitted(m, rec),
                                                  scattered |-> FALSE,
                                                  attenuation |-> Black,
                                                  incoming |-> Black]
                                            ELSE @]
    /\ UNCHANGED <<hit, mat, renderVars, runs>>

\* a return that adds the attenuation to the incoming radiance
RcReturnAdding ==
    /\ rc.op = "ray_color" /\ rc.pc = "return" /\ rc.frames # <<>>
    /\ rc' = [rc EXCEPT !.ret = VAdd(rc.frames[Len(rc.frames)], rc.ret),
                        !.frames = SubSeq(@, 1, Len(@) - 1),
                        !.depth = @ + 1, !.steps = @ + 1,
                        !.top = IF Len(rc.frames) = 1
                                THEN [@ EXCEPT !.incoming = rc.ret] ELSE @]
    /\ UNCHANGED <<hit, mat, renderVars, runs>>

\* a recursive call returns to its caller: attenuation * ray_color(scattered, ..)
RcReturn ==
    /\ rc.op = "ray_color" /\ rc.pc = "return" /\ rc.frames # <<>>
    /\ rc' = [rc EXCEPT !.ret = VMul(rc.frames[Len(rc.frames)], rc.ret),
                        !.frames = SubSeq(@, 1, Len(@) - 1),
                        !.depth = @ + 1, !.steps = @ + 1,
                        !.top = IF Len(rc.frames) = 1
                                THEN [@ EXCEPT !.incoming = rc.ret] ELSE @]
    /\ UNCHANGED <<hit, mat, renderVars, runs>>

\* the outermost call returns
RcDone ==
    /\ rc.op = "ray_color" /\ rc.pc = "return" /\ rc.frames = <<>>
    /\ rc' = [rc EXCEPT !.pc = "done", !.steps = @ + 1]
    /\ UNCHANGED <<hit, mat, renderVars, runs>>

RcNext == RcStart \/ RcEntry \/ RcIntersect \/ RcReturn \/ RcDone

----------------------------------------------------------------------------
(* The render loop of main *)

\* the generator's next state: a full-period congruential step stands for the
\* stream cipher behind rand::thread_rng()
RngStep(state) == (5 * state + 3) % RngStates
\* the f64 in [0, 1) that rng.gen() returns from a state
RngValue(state) == F((state * Scale) \div RngStates)

\* the scene's geometry is not carried here: which surface a ray meets is read
\* off the key of the ray, the draws that produced it
Meets(key) ==
    IF key % 3 = 0 THEN [found |-> FALSE, d |-> IF key % 2 = 0 THEN <<0, 1, 0>> ELSE <<1, -1, 0>>]
    ELSE [found |-> TRUE,
          m |-> IF key % 3 = 1
                THEN LambertianNew(<<FConst(7, 10), FConst(3, 10), FConst(3, 10)>>)
                ELSE MetalNew(MetalAlbedo, One),
          absorbed |-> key % 3 = 2 /\ key % 2 = 0]

\* ray_color(r, world, depth) as a function of the ray's key and the
\* generator's state; returns the colour and the generator's state afterwards
RECURSIVE RayColor(_, _, _)
RayColor(key, state, depth) ==
    IF depth <= 0 THEN [color |-> Black, state |-> state]
    ELSE LET w == Meets(key)
         IN  IF ~w.found THEN [color |-> SceneBackground[w.d], state |-> state]
             ELSE IF w.absorbed THEN [color |-> Black, state |-> RngStep(state)]
             ELSE LET sub == RayColor(state, RngStep(state), depth - 1)
                  IN  [color |-> VMul(w.m.albedo, sub.color), state |-> sub.state]

\* f64::clamp and the cast `as u8` (saturating, NaN to 0)
FClamp(x, lo, hi) == IF IsNaN(x) THEN x ELSE IF FLt(x, lo) THEN lo ELSE IF FLt(hi, x) THEN hi ELSE x
AsU8(x) ==
    IF IsNaN(x) THEN 0
    ELSE IF IsInf(x) THEN (IF x.v > 0 THEN 255 ELSE 0)
    ELSE IF x.v < 0 THEN 0
    ELSE IF x.v \div Scale > 255 THEN 255 ELSE x.v \div Scale

\* one channel of write_color
WriteChannel(c, samples_per_pixel) ==
    AsU8(FMul(FClamp(FSqrt(FDiv(c, FInt(samples_per_pixel))), Zero, FConst(999, 1000)),
              FConst(255999, 1000)))

write_color(pixel_color, samples_per_pixel) ==
    <<WriteChannel(pixel_color[1], samples_per_pixel),
      WriteChannel(pixel_color[2], samples_per_pixel),
      WriteChannel(pixel_color[3], samples_per_pixel)>>

\* cam.get_ray(u, v): the key of the camera ray through (u, v)
CameraKey(u, v) == u.v + v.v

\* the sample loop of one pixel, from sample i on: two jitter draws, the camera
\* ray, ray_color, and the sum
RECURSIVE SampleLoop(_, _, _, _, _)
SampleLoop(i, x, y, state, pixel_color) ==
    IF i >= SamplesPerPixel THEN [color |-> pixel_color, state |-> state]
    ELSE LET rand_u == RngValue(state)
             rand_v == RngValue(RngStep(state))
             after == RngStep(RngStep(state))
             u == FDiv(FAdd(FInt(x), rand_u), FInt(Width - 1))
             v == FDiv(FAdd(FInt(y), rand_v), FInt(Height - 1))
             got == RayColor(CameraKey(u, v), after, MaxDepth)
         IN  SampleLoop(i + 1, x, y, got.state, VAdd(pixel_color, got.color))

\* a write with no vertical flip
RowOfUnflipped(y) == y

\* img.get_pixel_mut(x, height - y - 1): the image row that loop row y is written to
RowOf(y) == Height - y - 1

Positions == {<<c, r>> : c \in 0..(Width - 1), r \in 0..(Height - 1)}

\* ImageBuffer::new(width, height): every pixel zero
NewImage == [pos \in Positions |-> <<0, 0, 0>>]

\* the state of a run of main's loop, and its steps
NewRun ==
    [phase |-> "setup", rng |-> [seeded |-> FALSE], px |-> 0, py |-> 0,
     img |-> NewImage, writes |-> [pos \in Positions |-> 0], progress |-> 0]

\* let mut rng = rand::thread_rng(): seeded from the system's entropy
RunSeeded(run, seed) ==
    [run EXCEPT !.phase = "render",
                !.rng = [seeded |-> TRUE, seed |-> seed, state |-> seed]]

\* one iteration of `for x in 0..width` inside `for y in 0..height`
RunPixel(run) ==
    LET got == SampleLoop(0, run.px, run.py, run.rng.state, Black)
        pos == <<run.px, RowOf(run.py)>>
        last == run.px = Width - 1
    IN  [run EXCEPT !.img = [@ EXCEPT ![pos] = write_color(got.color, SamplesPerPixel)],
                    !.writes = [@ EXCEPT ![pos] = @ + 1],
                    !.progress = @ + 1,
                    !.rng = [@ EXCEPT !.state = got.state],
                    !.px = IF last THEN 0 ELSE @ + 1,
                    !.py = IF last THEN @ + 1 ELSE @]

\* progress.finish(): the bar's position is set to its length
RunFinished(run) == [run EXCEPT !.phase = "finished", !.progress = Width * Height]

Seeds == 0..(RngStates - 1)

TheRun ==
    [phase |-> phase, rng |-> rng, px |-> px, py |-> py, img |-> img,
     writes |-> writes, progress |-> progress]

SetRun(run) ==
    /\ phase' = run.phase
    /\ rng' = run.rng
    /\ px' = run.px
    /\ py' = run.py
    /\ img' = run.img
    /\ writes' = run.writes
    /\ progress' = run.progress

\* main.rs line 87
ThreadRng ==
    /\ phase = "setup"
    /\ \E seed \in Seeds : SetRun(RunSeeded(TheRun, seed))
    /\ UNCHANGED <<hit, mat, rc, runs>>

\* main.rs lines 88-103, one pixel
RenderPixel ==
    /\ phase = "render"
    /\ py < Height
    /\ SetRun(RunPixel(TheRun))
    /\ UNCHANGED <<hit, mat, rc, runs>>

\* main.rs line 107
Finish ==
    /\ phase = "render"
    /\ py >= Height
    /\ SetRun(RunFinished(TheRun))
    /\ UNCHANGED <<hit, mat, rc, runs>>

\* two runs of the program over the same scene, each with its own generator
TwoRunSeed ==
    \E i \in {1, 2} :
        /\ runs[i].phase = "setup"
        /\ \E seed \in Seeds : runs' = [runs EXCEPT ![i] = RunSeeded(@, seed)]
        /\ UNCHANGED <<hit, mat, rc, renderVars>>

TwoRunPixel ==
    \E i \in {1, 2} :
        /\ runs[i].phase = "render"
        /\ runs[i].py < Height
        /\ runs' = [runs EXCEPT ![i] = RunPixel(@)]
        /\ UNCHANGED <<hit, mat, rc, renderVars>>

TwoRunFinish ==
    \E i \in {1, 2} :
        /\ runs[i].phase = "render"
        /\ runs[i].py >= Height
        /\ runs' = [runs EXCEPT ![i] = RunFinished(@)]
        /\ UNCHANGED <<hit, mat, rc, renderVars>>

----------------------------------------------------------------------------
Init ==
    /\ hit = NoCall
    /\ mat = NoCall
    /\ rc = NoCall
    /\ phase = NewRun.phase
    /\ rng = NewRun.rng
    /\ px = NewRun.px
    /\ py = NewRun.py
    /\ img = NewRun.img
    /\ writes = NewRun.writes
    /\ progress = NewRun.progress
    /\ runs = <<NewRun, NewRun>>

Next == ThreadRng \/ RenderPixel \/ Finish

Spec == Init /\ [][Next]_vars

TwoRunNext == TwoRunSeed \/ TwoRunPixel \/ TwoRunFinish

TwoRunSpec == Init /\ [][TwoRunNext]_vars

HitNext == CallSphereHitOld \/ CallSphereHit \/ CallMovingSphereHit

HitSpec == Init /\ [][HitNext]_vars

BoxNext == CallSphereBoundingBox \/ CallMovingSphereBoundingBox

BoxSpec == Init /\ [][BoxNext]_vars

MatNext == CallMetalNew \/ CallMetalScatter \/ CallDielectricScatter

MatSpec == Init /\ [][MatNext]_vars

RcSpec == Init /\ [][RcNext]_vars

\* ray_color runs on one thread that keeps executing: a step that can be taken is taken
RcFairSpec == RcSpec /\ WF_vars(RcNext)

----------------------------------------------------------------------------
(* Claims about the intersection routines *)

\* the quadratic of the recorded call
CallQuad == Quad(hit.center, hit.radius, hit.r)
CallSqrtd == FSqrt(CallQuad.discriminant)
CallSmall == SmallRoot(CallQuad.half_b, CallSqrtd, CallQuad.a)
CallLarge == LargeRoot(CallQuad.half_b, CallSqrtd, CallQuad.a)
SmallIn == ~OutOfRange(CallSmall, hit.t_min, hit.t_max)
LargeIn == ~OutOfRange(CallLarge, hit.t_min, hit.t_max)
HasDisc == hit.op # "none" /\ ~FLt(CallQuad.discriminant, Zero)

\* C1: for every Sphere::hit call (both implementations) whose discriminant is
\* non-negative, the returned t is the smaller root when it passes the range
\* test, else the larger root when that one passes, and nothing is returned when
\* neither does; so a returned t always passes the range test.  ("In the range"
\* is read as the code tests it, root < t_min || t_max < root being out.)
C1_RootSelection ==
    (HasDisc /\ hit.op \in {"sphere", "sphere_old"}) =>
        /\ SmallIn => (hit.ret.some /\ hit.ret.val.t = CallSmall)
        /\ (~SmallIn /\ LargeIn) => (hit.ret.some /\ hit.ret.val.t = CallLarge)
        /\ (~SmallIn /\ ~LargeIn) => ~hit.ret.some
        /\ hit.ret.some => ~OutOfRange(hit.ret.val.t, hit.t_min, hit.t_max)

\* C2: degenerate geometry is no intersection: a call whose ray direction has
\* zero length, or whose sphere has a zero or negative radius, returns nothing
\* (Sphere::hit of both files and MovingSphere::hit).
C2_DegenerateNoHit ==
    (hit.op # "none" /\ (hit.r.dir = VInt(<<0, 0, 0>>) \/ FLe(hit.radius, Zero))) =>
        ~hit.ret.some

\* the call of the concrete scenario: origin (0,0,0), direction (0,1,0), sphere
\* centred at (0,5,0) with radius 1, over a range containing t = 4
C8_Scenario ==
    /\ hit.op \in {"sphere", "sphere_old"}
    /\ hit.r.orig = VInt(<<0, 0, 0>>)
    /\ hit.r.dir = VInt(<<0, 1, 0>>)
    /\ hit.center = VInt(<<0, 5, 0>>)
    /\ hit.radius = FInt(1)
    /\ FLe(hit.t_min, FInt(4))
    /\ FLe(FInt(4), hit.t_max)

\* C8: in that scenario the hit has t = 4 (the near root, not the far root 6),
\* point (0,4,0), normal (0,-1,0) and front_face true.
C8_NearRootScenario ==
    C8_Scenario =>
        /\ hit.ret.some
        /\ hit.ret.val.t = FInt(4)
        /\ hit.ret.val.p = VInt(<<0, 4, 0>>)
        /\ hit.ret.val.normal = VInt(<<0, -1, 0>>)
        /\ hit.ret.val.front_face

\* the scenario has been run against the Sphere of hittable/sphere.rs with
\* t_min = 0.001 and an open-ended range, and it returned t = 4
C8_Witness ==
    /\ C8_Scenario
    /\ hit.op = "sphere"
    /\ hit.t_min = Epsilon
    /\ hit.t_max = F64_MAX
    /\ hit.ret.some
    /\ hit.ret.val.t = FInt(4)

----------------------------------------------------------------------------
(* Claims about the materials *)

\* the quantities Dielectric::scatter decides on, for the recorded call
DRatio == IF mat.rec.front_face THEN FDiv(One, mat.m.ir) ELSE mat.m.ir
DUnit == ToUnit(mat.r_in.dir)
DCos == FMin(Dot(VNeg(DUnit), mat.rec.normal), One)
DSin == FSqrt(FSub(One, FMul(DCos, DCos)))
DTotalInternal == FGt(FMul(DRatio, DSin), One)
DSchlick == Reflectance(DCos, DRatio)
DReflected == Reflect(DUnit, mat.rec.normal)
DRefracted == Refract(DUnit, mat.rec.normal, DRatio)

\* C7: Dielectric::scatter always scatters, with white attenuation and pdf 0;
\* the refraction ratio is 1/ir when front_face and ir otherwise; on total
\* internal reflection (ratio * sin_theta > 1) the outgoing direction is the
\* mirror reflection whatever the draw, otherwise it is the reflection exactly
\* when Schlick's reflectance exceeds the draw, and the refraction if not.
C7_DielectricScatter ==
    mat.op = "dielectric_scatter" =>
        /\ mat.ret.some
        /\ mat.ret.val.attenuation = White
        /\ mat.ret.val.pdf = Zero
        /\ mat.ret.val.scattered.orig = mat.rec.p
        /\ DTotalInternal => mat.ret.val.scattered.dir = DReflected
        /\ (~DTotalInternal /\ FGt(DSchlick, mat.random_double)) =>
              mat.ret.val.scattered.dir = DReflected
        /\ (~DTotalInternal /\ ~FGt(DSchlick, mat.random_double)) =>
              mat.ret.val.scattered.dir = DRefracted

\* a call that refracted: no total internal reflection, the reflectance did not
\* exceed the draw, and the outgoing direction is the refraction, which differs
\* from the reflection
C7_Witness ==
    /\ mat.op = "dielectric_scatter"
    /\ mat.rec.front_face
    /\ ~DTotalInternal
    /\ ~FGt(DSchlick, mat.random_double)
    /\ mat.ret.val.scattered.dir = DRefracted
    /\ DRefracted # DReflected

\* C9: the fuzz stored by Metal::new lies in [0,1] for every argument, and the
\* perturbation Metal::scatter adds to the mirror reflection is never longer
\* than 1.
C9_FuzzInUnitInterval ==
    /\ mat.op = "metal_new" => (FLe(Zero, mat.ret.fuzz) /\ FLe(mat.ret.fuzz, One))
    /\ mat.op = "metal_scatter" => FLe(LengthSqr(mat.perturbation), One)

----------------------------------------------------------------------------
(* Claims about the integrator *)

Max(a, b) == IF a > b THEN a ELSE b

\* the recursion's bookkeeping: every recursive call is made with depth - 1, so
\* nesting and the number of intersection tests are bounded by d
C3_Bounds ==
    rc.op = "ray_color" =>
        /\ rc.depth = rc.d0 - Len(rc.frames)
        /\ Len(rc.frames) <= Max(rc.d0, 0)
        /\ rc.tests <= Max(rc.d0, 0)
        /\ rc.d0 <= 0 => (rc.tests = 0 /\ (rc.pc \in {"return", "done"} => rc.ret = Black))
        /\ rc.steps <= 3 * Max(rc.d0, 0) + 3

RcReturned == rc.op = "ray_color" /\ rc.pc = "done"

\* C3: ray_color(r, world, d) always terminates: with d <= 0 it returns black
\* without intersecting the scene; every recursive call is made with depth - 1,
\* so the nesting of recursive calls never exceeds d and at most d intersection
\* tests are made, whatever the materials return; and every call returns.
C3_BoundedRecursion == []C3_Bounds /\ ((rc.op = "ray_color") ~> RcReturned)

\* a call started with the largest depth has returned after that many
\* intersection tests, every hit having scattered, cut off at depth 0
C3_Witness ==
    /\ rc.op = "ray_color"
    /\ rc.pc = "done"
    /\ rc.d0 = MaxDepth
    /\ rc.tests = MaxDepth
    /\ rc.ending = "cutoff"

\* C4: on a hit with depth > 0 the result is emitted + incoming: the material's
\* emitted colour alone when scatter returns nothing, and the emitted colour
\* plus attenuation times the radiance of the scattered ray when it scatters.
C4_EmittedPlusIncoming ==
    (rc.op = "ray_color" /\ rc.pc = "done" /\ rc.top.hit) =>
        rc.ret = VAdd(rc.top.emitted,
                      IF rc.top.scattered
                      THEN VMul(rc.top.attenuation, rc.top.incoming)
                      ELSE Black)

\* the exact product of channel c of the first n attenuations of a path
RECURSIVE ChanProd(_, _, _)
ChanProd(trail, c, n) == IF n = 0 THEN 1 ELSE trail[n][c].v * ChanProd(trail, c, n - 1)

RECURSIVE IPow(_, _)
IPow(b, n) == IF n = 0 THEN 1 ELSE b * IPow(b, n - 1)

----------------------------------------------------------------------------
(* Claims about the render loop *)

RECURSIVE SumOver(_, _)
SumOver(f, S) ==
    IF S = {} THEN 0
    ELSE LET e == CHOOSE e \in S : TRUE IN f[e] + SumOver(f, S \ {e})

\* loop iteration (x, y) has run
HasRun(x, y) == y < py \/ (y = py /\ x < px)

C6_Counter ==
    /\ progress = SumOver(writes, Positions)
    /\ \A x \in 0..(Width - 1), y \in 0..(Height - 1) :
          writes[<<x, Height - y - 1>>] = IF HasRun(x, y) THEN 1 ELSE 0
    /\ (py >= Height \/ phase = "finished") =>
          (progress = Width * Height /\ \A pos \in Positions : writes[pos] = 1)

\* C6: the progress counter never decreases and always equals the number of
\* pixels written so far; pixel (x, y) is written exactly once, to image row
\* height - y - 1; no two iterations write the same position; when the loop
\* ends the counter equals width * height.
C6_ProgressCounter == []C6_Counter /\ [][progress' >= progress]_vars

\* the loop has ended and the bar is finished: every position written once, the
\* image no longer blank
C6_Witness ==
    /\ phase = "finished"
    /\ progress = Width * Height
    /\ \A pos \in Positions : writes[pos] = 1
    /\ img # NewImage

BoxOrdered(b) == \A i \in 1..3 : FLe(b.min[i], b.max[i])

\* C11: every box returned by Sphere::bounding_box and
\* MovingSphere::bounding_box has min[i] <= max[i] on all three axes, for every
\* sphere the constructors accept (zero and negative radii included) and every
\* pair of times.
C11_BoxInvariant ==
    (hit.op \in {"sphere_box", "moving_sphere_box"}) =>
        (hit.ret.some /\ BoxOrdered(hit.ret.val))

====
